---- MODULE Spec2Model ----
(***************************************************************************)
(* Model of the protocol-dispatch encryption engine of encrypt.go:         *)
(* EncryptManager with its Encrypt / Decrypt / WithGCM /                   *)
(* RetrieveGCMDecryptionParameters operations and the three handlers       *)
(* (AES256-GCM, AES256-CFB with a PBKDF2 key, RSA PKCS1v15).               *)
(*                                                                         *)
(* Data is modelled at byte level: a []byte is a sequence of 0..255, a hex *)
(* string is a sequence of digit codes 0..15 (16 stands for a character    *)
(* that is no hex digit).  The library primitives (AES, PBKDF2, GCM, RSA)  *)
(* are replaced by small keyed byte functions that keep what the engine    *)
(* relies on: lengths, the CFB feedback structure, the GCM tag check, the  *)
(* PKCS1v15 padding layout and its 11-byte overhead.  crypto/rand is a     *)
(* source of fresh values: the n-th read returns bytes no other read       *)
(* returns.                                                                *)
(***************************************************************************)
EXTENDS Integers, Sequences, FiniteSets, TLC

VARIABLES
    engines,   \* engine id -> [passphrase, protocol, gcmDecryptParams]
    rnd,       \* number of reads made from crypto/rand so far
    last,      \* the last completed call: operation, engine, input, result
    issued,    \* successful GCM Encrypt calls so far, oldest first
    written,   \* per engine: the latest writer of gcmDecryptParams and what it wrote
    pc,        \* per goroutine: position inside Encrypt (concurrent runs)
    local      \* per goroutine: engine, input and the locals of Encrypt

vars == <<engines, rnd, last, issued, written, pc, local>>

----------------------------------------------------------------------------
(* Program constants *)

keylen == 32
saltlen == 32
nonceSize == 24
BlockSize == 16
TagSize == 16
Pkcs1Overhead == 11

GCM == "AES256-GCM"
CFB == "AES256-CFB"
RSA == "RSA"

----------------------------------------------------------------------------
(* Bounds of the model *)

\* byte size of the modulus of the RSA key the model's key text holds
RsaModulusBytes == 12
\* reads from crypto/rand a run may make
MaxRand == 4

----------------------------------------------------------------------------
(* Bytes *)

Min(a, b) == IF a < b THEN a ELSE b

\* a function on 1..n as the sequence of its values
AsSeq(f) == SubSeq(f, 1, Len(f))

RECURSIVE XorBits(_, _, _)
XorBits(a, b, n) ==
    IF n = 0 THEN 0
    ELSE (((a % 2) + (b % 2)) % 2) + 2 * XorBits(a \div 2, b \div 2, n - 1)

\* bitwise exclusive or of two bytes, tabulated once
XorTable ==
    AsSeq([i \in 1..256 |-> AsSeq([j \in 1..256 |-> XorBits(i - 1, j - 1, 8)])])

Xor(a, b) == XorTable[a + 1][b + 1]

RECURSIVE SumSeq(_)
SumSeq(s) == IF s = <<>> THEN 0 ELSE (Head(s) + SumSeq(Tail(s))) % 256

\* rand.Read / io.ReadFull(rand.Reader, b): the c-th read, n bytes
RandRead(n, c) == AsSeq([i \in 1..n |-> (c * 37 + i * 11 + 5) % 256])

\* hex.EncodeToString
HexEncode(b) ==
    AsSeq([i \in 1..(2 * Len(b)) |->
        IF i % 2 = 1 THEN b[(i + 1) \div 2] \div 16 ELSE b[i \div 2] % 16])

\* hex.DecodeString: ok is FALSE for an odd length or a non-hex character
HexDecode(s) ==
    IF Len(s) % 2 = 1 \/ (\E i \in 1..Len(s) : s[i] > 15)
    THEN [ok |-> FALSE, bytes |-> <<>>]
    ELSE [ok |-> TRUE,
          bytes |-> AsSeq([i \in 1..(Len(s) \div 2) |-> 16 * s[2 * i - 1] + s[2 * i]])]

\* the ASCII text of a hex string ('0'..'9', 'a'..'f'; 'g' for the bad character)
HexText(s) == AsSeq([i \in 1..Len(s) |-> IF s[i] < 10 THEN 48 + s[i] ELSE 87 + s[i]])

----------------------------------------------------------------------------
(* Library primitives *)

\* aes.NewCipher: the key sizes AES accepts
AesKeyOk(key) == Len(key) \in {16, 24, 32}

\* one AES block encryption under key
AESBlock(key, blk) ==
    AsSeq([i \in 1..BlockSize |->
        (Xor(blk[i], key[i]) + key[((i + 15) % Len(key)) + 1] + i) % 256])

\* pbkdf2.Key(passphrase, salt, 4096, keylen, sha512.New)
Pbkdf2(passphrase, salt) ==
    AsSeq([i \in 1..keylen |->
        (salt[((i - 1) % Len(salt)) + 1] * 3 + SumSeq(passphrase) * 7
            + Len(passphrase) + i) % 256])

\* cipher.NewCFBEncrypter(block, iv).XORKeyStream(dst, p)
RECURSIVE CFBEncrypt(_, _, _)
CFBEncrypt(key, prev, p) ==
    IF p = <<>> THEN <<>>
    ELSE LET n == Min(BlockSize, Len(p))
             ks == AESBlock(key, prev)
             c == AsSeq([i \in 1..n |-> Xor(p[i], ks[i])])
         IN c \o CFBEncrypt(key, c, SubSeq(p, n + 1, Len(p)))

\* cipher.NewCFBDecrypter(block, iv).XORKeyStream(dst, c)
RECURSIVE CFBDecrypt(_, _, _)
CFBDecrypt(key, prev, c) ==
    IF c = <<>> THEN <<>>
    ELSE LET n == Min(BlockSize, Len(c))
             ks == AESBlock(key, prev)
             blk == SubSeq(c, 1, n)
             p == AsSeq([i \in 1..n |-> Xor(blk[i], ks[i])])
         IN p \o CFBDecrypt(key, blk, SubSeq(c, n + 1, Len(c)))

\* the GCM counter block j for a 24-byte nonce
GcmCounter(nonce, j) ==
    AsSeq([i \in 1..BlockSize |-> (nonce[i] + nonce[((i + 15) % Len(nonce)) + 1] + j) % 256])

\* the GCM key stream byte i (counter mode, data blocks start at counter 1)
GcmStream(key, nonce, i) ==
    AESBlock(key, GcmCounter(nonce, 1 + ((i - 1) \div BlockSize)))[((i - 1) % BlockSize) + 1]

RECURSIVE GHash(_, _)
GHash(body, i) ==
    IF i > Len(body) THEN Len(body) % 256
    ELSE (body[i] * (i + 1) + GHash(body, i + 1)) % 256

\* the authentication tag of body under key and nonce, no associated data
GcmTag(key, nonce, body) ==
    LET mask == AESBlock(key, GcmCounter(nonce, 0))
        h == GHash(body, 1)
    IN AsSeq([i \in 1..TagSize |-> Xor(mask[i], (h + i) % 256)])

\* aesGCM.Seal(nil, nonce, data, nil)
GcmSeal(key, nonce, data) ==
    LET body == AsSeq([i \in 1..Len(data) |-> Xor(data[i], GcmStream(key, nonce, i))])
    IN body \o GcmTag(key, nonce, body)

\* aesGCM.Open(nil, nonce, ct, nil): panics on a nonce of the wrong length,
\* fails when the input is shorter than a tag or the tag does not match
GcmOpen(key, nonce, ct) ==
    IF Len(nonce) # nonceSize
    THEN [out |-> <<>>, err |-> "", panic |-> "crypto/cipher: incorrect nonce length given to GCM"]
    ELSE IF Len(ct) < TagSize
    THEN [out |-> <<>>, err |-> "cipher: message authentication failed", panic |-> ""]
    ELSE LET body == SubSeq(ct, 1, Len(ct) - TagSize)
             tag == SubSeq(ct, Len(ct) - TagSize + 1, Len(ct))
         IN IF tag # GcmTag(key, nonce, body)
            THEN [out |-> <<>>, err |-> "cipher: message authentication failed", panic |-> ""]
            ELSE [out |-> AsSeq([i \in 1..Len(body) |-> Xor(body[i], GcmStream(key, nonce, i))]),
                  err |-> "", panic |-> ""]

\* the RSA permutation on a k-byte block under the public key, and its inverse
\* under the private key
RsaPublicOp(key, em) ==
    LET k == Len(em)
    IN AsSeq([i \in 1..k |-> (em[k + 1 - i] + key.secret + i) % 256])

RsaPrivateOp(key, c) ==
    LET k == Len(c)
    IN AsSeq([j \in 1..k |-> (c[k + 1 - j] + 512 - key.secret - (k + 1 - j)) % 256])

\* nonZeroRandomBytes: the padding string holds no zero byte
NonZero(s) == AsSeq([i \in 1..Len(s) |-> IF s[i] = 0 THEN 1 ELSE s[i]])

\* rsa.EncryptPKCS1v15(rand.Reader, pub, msg); c is the read of crypto/rand
\* that fills the padding string
EncryptPKCS1v15(key, msg, c) ==
    LET k == key.size
    IN IF Len(msg) > k - Pkcs1Overhead
       THEN [ok |-> FALSE, out |-> <<>>, err |-> "crypto/rsa: message too long for RSA public key size"]
       ELSE LET ps == NonZero(RandRead(k - Len(msg) - 3, c))
                em == <<0, 2>> \o ps \o <<0>> \o msg
            IN [ok |-> TRUE, out |-> RsaPublicOp(key, em), err |-> ""]

\* the index of the first zero byte of em after the two header bytes, 0 if none
RECURSIVE FirstZero(_, _)
FirstZero(em, i) ==
    IF i > Len(em) THEN 0
    ELSE IF em[i] = 0 THEN i ELSE FirstZero(em, i + 1)

\* rsa.DecryptPKCS1v15(rand.Reader, priv, ciphertext)
DecryptPKCS1v15(key, ct) ==
    LET k == key.size
        bad == [ok |-> FALSE, out |-> <<>>, err |-> "crypto/rsa: decryption error"]
    IN IF k < Pkcs1Overhead \/ Len(ct) # k THEN bad
       ELSE LET em == RsaPrivateOp(key, ct)
                z == FirstZero(em, 3)
            IN IF em[1] # 0 \/ em[2] # 2 \/ z = 0 \/ z < Pkcs1Overhead THEN bad
               ELSE [ok |-> TRUE, out |-> SubSeq(em, z + 1, k), err |-> ""]

----------------------------------------------------------------------------
(* Values of the engine *)

\* *GCMDecryptParams: nil, or a struct of two hex strings
NilParams == [isNil |-> TRUE, CipherKey |-> <<>>, Nonce |-> <<>>]

GCMDecryptParams(cipherKey, nonce) ==
    [isNil |-> FALSE, CipherKey |-> cipherKey, Nonce |-> nonce]

\* io.Reader: nil, or a reader that yields data
NilReader == [isNil |-> TRUE, data |-> <<>>]

Reader(data) == [isNil |-> FALSE, data |-> data]

\* what a call gives back: (out, nil), (nil, err), or a panic; calls lists the
\* protocol handlers the call entered, in order
Ok(out, calls) ==
    [out |-> out, isNil |-> FALSE, err |-> "", panic |-> "", calls |-> calls]

Fail(err, calls) ==
    [out |-> <<>>, isNil |-> TRUE, err |-> err, panic |-> "", calls |-> calls]

Panic(msg, calls) ==
    [out |-> <<>>, isNil |-> TRUE, err |-> "", panic |-> msg, calls |-> calls]

\* the passphrase that is the base64 text of a serialized RSA private key ("CAAS")
RsaKeyText == <<67, 65, 65, 83>>

\* a human passphrase ("ch")
PassText == <<99, 104>>

\* unmarshallRsaKey: base64-decode the passphrase (the decoding error is
\* dropped), ic.UnmarshalPrivateKey, x509.ParsePKCS1PrivateKey
unmarshallRsaKey(passphrase) ==
    IF passphrase = RsaKeyText
    THEN [ok |-> TRUE, size |-> RsaModulusBytes, secret |-> 41, err |-> ""]
    ELSE [ok |-> FALSE, size |-> 0, secret |-> 0,
          err |-> "Invalid paraphrase is provided"]

----------------------------------------------------------------------------
(* Protocol handlers.  c is the number of reads crypto/rand has served before *)
(* the call; reads is how many the call made.                                 *)

encryptGCM(r, c) ==
    IF r.isNil
    THEN [ok |-> FALSE, data |-> <<>>, nonce |-> <<>>, cipherKey |-> <<>>,
          err |-> "invalid content provided", reads |-> 0]
    ELSE LET cipherKeyBytes == RandRead(32, c)
             nonce == RandRead(nonceSize, c + 1)
         IN [ok |-> TRUE, data |-> GcmSeal(cipherKeyBytes, nonce, r.data),
             nonce |-> nonce, cipherKey |-> cipherKeyBytes, err |-> "", reads |-> 2]

\* variant: the legacy 8-byte salt on the encrypt side
encryptCFB_ShortSalt(passphrase, r, c) ==
    IF r.isNil
    THEN [res |-> Fail("invalid content provided", <<"encryptCFB">>), reads |-> 0]
    ELSE LET salt == RandRead(8, c)
             key == Pbkdf2(passphrase, salt)
             iv == RandRead(BlockSize, c + 1)
         IN [res |-> Ok(iv \o CFBEncrypt(key, iv, r.data) \o salt, <<"encryptCFB">>),
             reads |-> 2]

encryptCFB(passphrase, r, c) ==
    IF r.isNil
    THEN [res |-> Fail("invalid content provided", <<"encryptCFB">>), reads |-> 0]
    ELSE LET salt == RandRead(saltlen, c)
             key == Pbkdf2(passphrase, salt)
             b == r.data
             iv == RandRead(BlockSize, c + 1)
             encrypted == iv \o CFBEncrypt(key, iv, b)
         IN [res |-> Ok(encrypted \o salt, <<"encryptCFB">>), reads |-> 2]

\* variant: the size check rejects a plaintext of exactly the modulus size
encryptRSA_RejectAtSize(passphrase, r, c) ==
    IF r.isNil
    THEN [res |-> Fail("invalid content provided", <<"encryptRSA">>), reads |-> 0]
    ELSE LET rsaKeyPair == unmarshallRsaKey(passphrase)
         IN IF ~rsaKeyPair.ok
            THEN [res |-> Fail(rsaKeyPair.err, <<"encryptRSA">>), reads |-> 0]
            ELSE IF rsaKeyPair.size <= Len(r.data)
            THEN [res |-> Fail("Can't encrypt file larger than RSA pub key size",
                               <<"encryptRSA">>), reads |-> 0]
            ELSE LET enc == EncryptPKCS1v15(rsaKeyPair, r.data, c)
                 IN IF ~enc.ok
                    THEN [res |-> Fail(enc.err, <<"encryptRSA">>), reads |-> 0]
                    ELSE [res |-> Ok(enc.out, <<"encryptRSA">>), reads |-> 1]

encryptRSA(passphrase, r, c) ==
    IF r.isNil
    THEN [res |-> Fail("invalid content provided", <<"encryptRSA">>), reads |-> 0]
    ELSE LET b == r.data
             rsaKeyPair == unmarshallRsaKey(passphrase)
         IN IF ~rsaKeyPair.ok
            THEN [res |-> Fail(rsaKeyPair.err, <<"encryptRSA">>), reads |-> 0]
            ELSE IF rsaKeyPair.size < Len(b)
            THEN [res |-> Fail("Can't encrypt file larger than RSA pub key size",
                               <<"encryptRSA">>), reads |-> 0]
            ELSE LET enc == EncryptPKCS1v15(rsaKeyPair, b, c)
                 IN IF ~enc.ok
                    THEN [res |-> Fail(enc.err, <<"encryptRSA">>), reads |-> 0]
                    ELSE [res |-> Ok(enc.out, <<"encryptRSA">>), reads |-> 1]

\* decryptGCM once the parameters are known to be present
decryptGCMWith(params, r) ==
    LET decodedKey == HexDecode(params.CipherKey)
        decodedNonce == HexDecode(params.Nonce)
    IN IF ~decodedKey.ok
       THEN Fail("encoding/hex: invalid key", <<"decryptGCM">>)
       ELSE IF ~decodedNonce.ok
       THEN Fail("encoding/hex: invalid nonce", <<"decryptGCM">>)
       ELSE IF ~AesKeyOk(decodedKey.bytes)
       THEN Fail("crypto/aes: invalid key size", <<"decryptGCM">>)
       ELSE IF r.isNil
       THEN Panic("invalid memory address or nil pointer dereference", <<"decryptGCM">>)
       ELSE LET opened == GcmOpen(decodedKey.bytes, decodedNonce.bytes, r.data)
            IN IF opened.panic # "" THEN Panic(opened.panic, <<"decryptGCM">>)
               ELSE IF opened.err # "" THEN Fail(opened.err, <<"decryptGCM">>)
               ELSE Ok(opened.out, <<"decryptGCM">>)

\* variant: the nil check of the parameters is missing
decryptGCM_NoNilCheck(e, r) ==
    IF e.gcmDecryptParams.isNil
    THEN Panic("invalid memory address or nil pointer dereference", <<"decryptGCM">>)
    ELSE decryptGCMWith(e.gcmDecryptParams, r)

decryptGCM(e, r) ==
    IF e.gcmDecryptParams.isNil
    THEN Fail("gcm decryption parameters is null", <<"decryptGCM">>)
    ELSE decryptGCMWith(e.gcmDecryptParams, r)

\* raw[len(raw)-saltlen:], the trailing salt of the envelope
SplitSalt(raw) == SubSeq(raw, Len(raw) - saltlen + 1, Len(raw))

\* variant: the legacy 8-byte salt on the decrypt side
decryptCFB_Salt8(passphrase, r) ==
    IF r.isNil
    THEN Fail("invalid content provided", <<"decryptCFB">>)
    ELSE LET raw == r.data
         IN IF Len(raw) - 8 < 0
            THEN Panic("slice bounds out of range", <<"decryptCFB">>)
            ELSE LET salt == SubSeq(raw, Len(raw) - 8 + 1, Len(raw))
                     body == SubSeq(raw, 1, Len(raw) - 8)
                     key == Pbkdf2(passphrase, salt)
                 IN IF Len(body) - BlockSize < 0
                    THEN Panic("makeslice: len out of range", <<"decryptCFB">>)
                    ELSE Ok(CFBDecrypt(key, SubSeq(body, 1, BlockSize),
                                       SubSeq(body, BlockSize + 1, Len(body))),
                            <<"decryptCFB">>)

decryptCFB(passphrase, r) ==
    IF r.isNil
    THEN Fail("invalid content provided", <<"decryptCFB">>)
    ELSE LET raw == r.data
         IN IF Len(raw) - saltlen < 0
            THEN Panic("slice bounds out of range", <<"decryptCFB">>)
            ELSE LET salt == SplitSalt(raw)
                     body == SubSeq(raw, 1, Len(raw) - saltlen)
                     key == Pbkdf2(passphrase, salt)
                 IN IF Len(body) - BlockSize < 0
                    THEN Panic("makeslice: len out of range", <<"decryptCFB">>)
                    ELSE Ok(CFBDecrypt(key, SubSeq(body, 1, BlockSize),
                                       SubSeq(body, BlockSize + 1, Len(body))),
                            <<"decryptCFB">>)

decryptRSA(passphrase, r) ==
    IF r.isNil
    THEN Fail("invalid content provided", <<"decryptRSA">>)
    ELSE LET b == r.data
             rsaKeyPair == unmarshallRsaKey(passphrase)
         IN IF ~rsaKeyPair.ok THEN Fail(rsaKeyPair.err, <<"decryptRSA">>)
            ELSE LET dec == DecryptPKCS1v15(rsaKeyPair, b)
                 IN IF ~dec.ok THEN Fail(dec.err, <<"decryptRSA">>)
                    ELSE Ok(dec.out, <<"decryptRSA">>)

----------------------------------------------------------------------------
(* The engine *)

NewEncryptManager(passphrase, protocol) ==
    [passphrase |-> passphrase, protocol |-> protocol, gcmDecryptParams |-> NilParams]

\* variant: the parameters are installed but the protocol is left as it was
WithGCM_KeepProtocol(e, params) ==
    [e EXCEPT !.gcmDecryptParams = params]

WithGCM(e, params) ==
    [e EXCEPT !.protocol = GCM, !.gcmDecryptParams = params]

\* variant: parameters already stored are kept
SetGCMParams_KeepFirst(e, cipherKey, nonce) ==
    IF e.gcmDecryptParams.isNil
    THEN [e EXCEPT !.gcmDecryptParams =
            GCMDecryptParams(HexEncode(cipherKey), HexEncode(nonce))]
    ELSE e

\* e.gcmDecryptParams = &GCMDecryptParams{hex(cipherKey), hex(nonce)}
SetGCMParams(e, cipherKey, nonce) ==
    [e EXCEPT !.gcmDecryptParams =
        GCMDecryptParams(HexEncode(cipherKey), HexEncode(nonce))]

\* case GCM of Encrypt
EncryptCaseGCM(e, r, c) ==
    LET h == encryptGCM(r, c)
    IN IF ~h.ok
       THEN [res |-> Fail(h.err, <<"encryptGCM">>), eng |-> e, reads |-> h.reads]
       ELSE [res |-> Ok(h.data, <<"encryptGCM">>),
             eng |-> SetGCMParams(e, h.cipherKey, h.nonce),
             reads |-> h.reads]

\* case CFB of Encrypt
EncryptCaseCFB(e, r, c) ==
    LET h == encryptCFB(e.passphrase, r, c)
    IN [res |-> h.res, eng |-> e, reads |-> h.reads]

\* case RSA of Encrypt
EncryptCaseRSA(e, r, c) ==
    LET h == encryptRSA(e.passphrase, r, c)
    IN [res |-> h.res, eng |-> e, reads |-> h.reads]

\* variant: an unset protocol falls back to CFB ("Default is CFB")
Encrypt_DefaultCFB(e, r, c) ==
    CASE e.protocol = GCM -> EncryptCaseGCM(e, r, c)
      [] e.protocol = RSA -> EncryptCaseRSA(e, r, c)
      [] OTHER -> EncryptCaseCFB(e, r, c)

\* variant: the GCM parameters are stored before the handler's error is looked at
Encrypt_StoreFirst(e, r, c) ==
    CASE e.protocol = GCM ->
            LET h == encryptGCM(r, c)
            IN [res |-> IF h.ok THEN Ok(h.data, <<"encryptGCM">>)
                        ELSE Fail(h.err, <<"encryptGCM">>),
                eng |-> SetGCMParams(e, h.cipherKey, h.nonce),
                reads |-> h.reads]
      [] e.protocol = CFB -> EncryptCaseCFB(e, r, c)
      [] e.protocol = RSA -> EncryptCaseRSA(e, r, c)
      [] OTHER ->
            [res |-> Fail("no protocol specified", <<>>), eng |-> e, reads |-> 0]

Encrypt(e, r, c) ==
    CASE e.protocol = GCM -> EncryptCaseGCM(e, r, c)
      [] e.protocol = CFB -> EncryptCaseCFB(e, r, c)
      [] e.protocol = RSA -> EncryptCaseRSA(e, r, c)
      [] OTHER ->
            [res |-> Fail("no protocol specified", <<>>), eng |-> e, reads |-> 0]

\* fmt.Sprintf("Nonce:\t%s\nCipherKey:\t%s", params.Nonce, params.CipherKey)
FormatParams(params) ==
    <<78, 111, 110, 99, 101, 58, 9>> \o HexText(params.Nonce)
        \o <<10, 67, 105, 112, 104, 101, 114, 75, 101, 121, 58, 9>>
        \o HexText(params.CipherKey)

RetrieveGCMDecryptionParameters(e, c) ==
    IF e.gcmDecryptParams.isNil
    THEN [res |-> Fail("gcm decryption parameters is empty", <<>>), reads |-> 0]
    ELSE encryptCFB(e.passphrase, Reader(FormatParams(e.gcmDecryptParams)), c)

\* the first matching case runs: the second "case GCM" is never reached
Decrypt(e, r) ==
    CASE e.protocol = CFB -> decryptCFB(e.passphrase, r)
      [] e.protocol = GCM -> decryptGCM(e, r)
      [] e.protocol = RSA -> decryptRSA(e.passphrase, r)
      [] OTHER -> Fail("invalid invocation", <<>>)

----------------------------------------------------------------------------
(* Inputs of the model *)

\* engine instances: one in sequential runs, two in concurrent runs
SeqEngines == {1}
Engines == {1, 2}
Goroutines == {1, 2}

Protocols == {GCM, CFB, RSA, "", "ROT13"}
Passphrases == {PassText, RsaKeyText}

\* a byte pattern of length n
Pat(n, s) == AsSeq([i \in 1..n |-> IF (i + s) % 2 = 0 THEN 65 ELSE (200 + i) % 256])

PlainLens ==
    {0, 1, RsaModulusBytes - Pkcs1Overhead, RsaModulusBytes - Pkcs1Overhead + 1,
     RsaModulusBytes, RsaModulusBytes + 1}

Plaintexts == {Pat(n, 0) : n \in PlainLens}

EncryptInputs == {NilReader} \cup {Reader(p) : p \in Plaintexts}

\* inputs of Decrypt that no Encrypt produced, around the envelope sizes
MalformedLens == {0, saltlen, saltlen + BlockSize - 1, saltlen + BlockSize}

\* key material a caller saved outside the engine
ExternalKey == RandRead(32, 99)
ExternalNonce == RandRead(nonceSize, 98)

IssuedParams(i) ==
    GCMDecryptParams(HexEncode(issued[i].cipherKey), HexEncode(issued[i].nonce))

\* what a caller may hand to WithGCM
GivenParams ==
    {NilParams,
     GCMDecryptParams(<<16, 1>>, HexEncode(ExternalNonce)),
     GCMDecryptParams(HexEncode(ExternalKey), <<1>>),
     GCMDecryptParams(HexEncode(ExternalKey), HexEncode(<<1, 2>>))}
    \cup {IssuedParams(i) : i \in 1..Len(issued)}

DecryptInputs ==
    {NilReader}
    \cup {Reader(Pat(n, 0)) : n \in MalformedLens}
    \cup {Reader(issued[i].ct) : i \in 1..Len(issued)}
    \cup (IF last.op \in {"Encrypt", "Retrieve"} /\ last.res.err = ""
          THEN {Reader(last.res.out)} ELSE {})

NoEnc == [valid |-> FALSE, plain |-> <<>>, out |-> <<>>]

NoCall ==
    [op |-> "New", eng |-> 1, input |-> NilReader, params |-> NilParams,
     res |-> Ok(<<>>, <<>>), before |-> NewEncryptManager(<<>>, ""), rnd |-> 0,
     prevEnc |-> NoEnc]

\* nothing has written gcmDecryptParams since construction
NoWriter == [by |-> "New", params |-> NilParams]

\* a goroutine's view of its calls
NoLocal ==
    [eng |-> 1, input |-> NilReader, cipherKey |-> <<>>, nonce |-> <<>>,
     res |-> Ok(<<>>, <<>>), dec |-> Ok(<<>>, <<>>)]

\* the key and nonce the reads c and c+1 of crypto/rand return, hex-encoded
GeneratedParams(c) ==
    GCMDecryptParams(HexEncode(RandRead(32, c)), HexEncode(RandRead(nonceSize, c + 1)))

\* variant: the parameters live in one place shared by all engines
StoreEngine_Shared(engs, id, e) ==
    [x \in DOMAIN engs |->
        IF x = id THEN e
        ELSE [engs[x] EXCEPT !.gcmDecryptParams = e.gcmDecryptParams]]

\* the engine table with engine id replaced
StoreEngine(engs, id, e) == [engs EXCEPT ![id] = e]

----------------------------------------------------------------------------
(* Sequential use: each call runs to completion before the next starts *)

Init ==
    /\ engines \in [SeqEngines -> {NewEncryptManager(p, q) : p \in Passphrases, q \in Protocols}]
    /\ rnd = 0
    /\ last = NoCall
    /\ issued = <<>>
    /\ written = [id \in SeqEngines |-> NoWriter]
    /\ pc = [g \in Goroutines |-> "idle"]
    /\ local = [g \in Goroutines |-> NoLocal]

DoEncrypt(id, r) ==
    LET e == engines[id]
        call == Encrypt(e, r, rnd)
        gcmOk == e.protocol = GCM /\ call.res.err = ""
    IN /\ rnd + call.reads <= MaxRand
       /\ engines' = StoreEngine(engines, id, call.eng)
       /\ rnd' = rnd + call.reads
       /\ last' = [op |-> "Encrypt", eng |-> id, input |-> r, params |-> NilParams,
                   res |-> call.res, before |-> e, rnd |-> rnd, prevEnc |-> NoEnc]
       /\ issued' = IF gcmOk
                    THEN Append(issued, [eng |-> id, plain |-> r.data, ct |-> call.res.out,
                                         cipherKey |-> RandRead(32, rnd),
                                         nonce |-> RandRead(nonceSize, rnd + 1)])
                    ELSE issued
       /\ written' = IF gcmOk
                     THEN [written EXCEPT ![id] = [by |-> "Encrypt", params |-> GeneratedParams(rnd)]]
                     ELSE written
       /\ UNCHANGED <<pc, local>>

DoDecrypt(id, r) ==
    LET e == engines[id]
        res == Decrypt(e, r)
    IN /\ last' = [op |-> "Decrypt", eng |-> id, input |-> r, params |-> NilParams,
                   res |-> res, before |-> e, rnd |-> rnd,
                   prevEnc |-> IF last.op = "Encrypt" /\ last.eng = id /\ last.res.err = ""
                               THEN [valid |-> TRUE, plain |-> last.input.data,
                                     out |-> last.res.out]
                               ELSE NoEnc]
       /\ UNCHANGED <<engines, rnd, issued, written, pc, local>>

DoWithGCM(id, params) ==
    LET e == engines[id]
    IN /\ engines' = StoreEngine(engines, id, WithGCM(e, params))
       /\ last' = [op |-> "WithGCM", eng |-> id, input |-> NilReader, params |-> params,
                   res |-> Ok(<<>>, <<>>), before |-> e, rnd |-> rnd, prevEnc |-> NoEnc]
       /\ written' = [written EXCEPT ![id] = [by |-> "WithGCM", params |-> params]]
       /\ UNCHANGED <<rnd, issued, pc, local>>

DoRetrieve(id) ==
    LET e == engines[id]
        call == RetrieveGCMDecryptionParameters(e, rnd)
    IN /\ rnd + call.reads <= MaxRand
       /\ rnd' = rnd + call.reads
       /\ last' = [op |-> "Retrieve", eng |-> id, input |-> NilReader, params |-> NilParams,
                   res |-> call.res, before |-> e, rnd |-> rnd, prevEnc |-> NoEnc]
       /\ UNCHANGED <<engines, issued, written, pc, local>>

Next ==
    \/ \E id \in DOMAIN engines, r \in EncryptInputs : DoEncrypt(id, r)
    \/ \E id \in DOMAIN engines, r \in DecryptInputs : DoDecrypt(id, r)
    \/ \E id \in DOMAIN engines, params \in GivenParams : DoWithGCM(id, params)
    \/ \E id \in DOMAIN engines : DoRetrieve(id)

Spec == Init /\ [][Next]_vars

----------------------------------------------------------------------------
(* Concurrent use: two goroutines, each calling Encrypt once on its engine    *)
(* and then Decrypt on the ciphertext it received.  Encrypt in GCM mode is    *)
(* two steps, the handler (lines 89-94) and the store of e.gcmDecryptParams   *)
(* (lines 96-99); the other calls touch no shared field.                      *)

ConcInputs == {NilReader, Reader(Pat(0, 0)), Reader(Pat(1, 0)), Reader(Pat(BlockSize + 1, 0))}

ConcInit ==
    /\ engines \in [Engines -> {NewEncryptManager(PassText, q) : q \in {GCM, CFB, ""}}]
    /\ rnd = 0
    /\ last = NoCall
    /\ issued = <<>>
    /\ written = [id \in Engines |-> NoWriter]
    /\ pc = [g \in Goroutines |-> "call"]
    /\ local \in [Goroutines -> {[NoLocal EXCEPT !.eng = id, !.input = r] :
                                    id \in Engines, r \in ConcInputs}]

\* Encrypt up to the store of the parameters
GoEncryptCall(g) ==
    LET id == local[g].eng
        e == engines[id]
    IN /\ pc[g] = "call"
       /\ IF e.protocol = GCM
          THEN LET h == encryptGCM(local[g].input, rnd)
               IN /\ rnd' = rnd + h.reads
                  /\ IF h.ok
                     THEN /\ local' = [local EXCEPT ![g].cipherKey = h.cipherKey,
                                                    ![g].nonce = h.nonce,
                                                    ![g].res = Ok(h.data, <<"encryptGCM">>)]
                          /\ pc' = [pc EXCEPT ![g] = "store"]
                     ELSE /\ local' = [local EXCEPT ![g].res = Fail(h.err, <<"encryptGCM">>)]
                          /\ pc' = [pc EXCEPT ![g] = "done"]
          ELSE LET call == Encrypt(e, local[g].input, rnd)
               IN /\ rnd' = rnd + call.reads
                  /\ local' = [local EXCEPT ![g].res = call.res]
                  /\ pc' = [pc EXCEPT ![g] = "done"]
       /\ UNCHANGED <<engines, last, issued, written>>

\* the store of e.gcmDecryptParams, and the return
GoEncryptStore(g) ==
    LET id == local[g].eng
    IN /\ pc[g] = "store"
       /\ engines' = StoreEngine(engines, id,
                                 SetGCMParams(engines[id], local[g].cipherKey, local[g].nonce))
       /\ pc' = [pc EXCEPT ![g] = "done"]
       /\ UNCHANGED <<rnd, last, issued, written, local>>

\* Decrypt of the ciphertext this goroutine's Encrypt returned
GoDecrypt(g) ==
    LET id == local[g].eng
    IN /\ pc[g] = "done"
       /\ local[g].res.err = ""
       /\ local' = [local EXCEPT ![g].dec = Decrypt(engines[id], Reader(local[g].res.out))]
       /\ pc' = [pc EXCEPT ![g] = "checked"]
       /\ UNCHANGED <<engines, rnd, last, issued, written>>

ConcNext ==
    \E g \in Goroutines :
        \/ GoEncryptCall(g)
        \/ GoEncryptStore(g)
        \/ GoDecrypt(g)

ConcSpec == ConcInit /\ [][ConcNext]_vars

----------------------------------------------------------------------------
(* Properties *)

Succeeded(res) == res.err = "" /\ res.panic = ""

\* the call returned (nil, err): an error, no output, no panic
ReturnedError(res) == res.err # "" /\ res.panic = "" /\ res.isNil /\ res.out = <<>>

Supported == {GCM, CFB, RSA}

\* the last call was Encrypt of a byte sequence on an engine of protocol q
EncryptedUnder(q) ==
    last.op = "Encrypt" /\ last.before.protocol = q /\ ~last.input.isNil

\* the last call was Decrypt of the ciphertext that the call before it, an
\* Encrypt on the same engine, returned
DecryptedOwn ==
    last.op = "Decrypt" /\ last.prevEnc.valid /\ last.input = Reader(last.prevEnc.out)

\* a passphrase that holds an RSA key, when the protocol needs one
KeyFits(e) == e.protocol = RSA => unmarshallRsaKey(e.passphrase).ok

\* C1 as stated: under each of the three protocols (RSA with a valid key)
\* Encrypt of every byte sequence succeeds, and Decrypt of the returned
\* ciphertext on the same engine returns the plaintext.
C1_RoundTripEveryInput ==
    /\ (\E q \in Supported : EncryptedUnder(q)) /\ KeyFits(last.before)
            => Succeeded(last.res)
    /\ DecryptedOwn => Succeeded(last.res) /\ last.res.out = last.prevEnc.plain

\* C1 amended: whenever Encrypt succeeds, Decrypt of the returned ciphertext
\* on the same engine succeeds and returns exactly the plaintext; Encrypt of
\* a byte sequence always succeeds under GCM and CFB, and under RSA exactly
\* when the passphrase holds a key and the plaintext is at most k - 11 bytes.
C1_RoundTrip ==
    /\ DecryptedOwn => Succeeded(last.res) /\ last.res.out = last.prevEnc.plain
    /\ EncryptedUnder(GCM) \/ EncryptedUnder(CFB) => Succeeded(last.res)
    /\ EncryptedUnder(RSA) =>
            (Succeeded(last.res) <=>
                /\ unmarshallRsaKey(last.before.passphrase).ok
                /\ Len(last.input.data) <= RsaModulusBytes - Pkcs1Overhead)

\* an RSA round trip of a non-empty plaintext
C1_Witness ==
    /\ DecryptedOwn
    /\ last.before.protocol = RSA
    /\ last.prevEnc.plain # <<>>
    /\ last.res.out = last.prevEnc.plain

\* C2: Decrypt in CFB mode of an input shorter than IV plus salt (48 bytes)
\* returns an error: no panic, no plaintext.
C2_ShortCfbInputIsError ==
    (/\ last.op = "Decrypt"
     /\ last.before.protocol = CFB
     /\ ~last.input.isNil
     /\ Len(last.input.data) < BlockSize + saltlen)
        => ReturnedError(last.res)

\* the last call was Encrypt of a byte sequence under RSA with a valid key
RsaEncrypted == EncryptedUnder(RSA) /\ unmarshallRsaKey(last.before.passphrase).ok

TooLarge == "Can't encrypt file larger than RSA pub key size"
MessageTooLong == "crypto/rsa: message too long for RSA public key size"

\* C3 as stated: with a valid key of k bytes, Encrypt of k bytes succeeds,
\* Encrypt of k+1 bytes fails with the input-too-large error, and no length
\* that passes the engine's size check is rejected by the primitive.
C3_BoundaryAtModulusSize ==
    RsaEncrypted =>
        /\ Len(last.input.data) = RsaModulusBytes => Succeeded(last.res)
        /\ Len(last.input.data) = RsaModulusBytes + 1 => last.res.err = TooLarge
        /\ Len(last.input.data) <= RsaModulusBytes => last.res.err # MessageTooLong

\* C3 amended: with a valid key of k bytes, Encrypt succeeds exactly for
\* plaintexts of at most k - 11 bytes and returns k bytes; a plaintext longer
\* than k bytes fails with the input-too-large error of the engine's own
\* check; a plaintext of more than k - 11 and at most k bytes passes that
\* check and is rejected by the PKCS1v15 primitive.
C3_RsaSizeBoundary ==
    RsaEncrypted =>
        LET n == Len(last.input.data)
        IN /\ n <= RsaModulusBytes - Pkcs1Overhead
                => Succeeded(last.res) /\ Len(last.res.out) = RsaModulusBytes
           /\ n > RsaModulusBytes - Pkcs1Overhead /\ n <= RsaModulusBytes
                => ReturnedError(last.res) /\ last.res.err = MessageTooLong
           /\ n > RsaModulusBytes
                => ReturnedError(last.res) /\ last.res.err = TooLarge

\* a plaintext of exactly k bytes, rejected by the primitive
C3_Witness ==
    /\ RsaEncrypted
    /\ Len(last.input.data) = RsaModulusBytes
    /\ last.res.err = MessageTooLong

\* C4: a successful Encrypt in CFB mode returns 16 + len(p) + saltlen bytes,
\* the IV first, then len(p) bytes of CFB ciphertext, then the salt, and
\* decryptCFB splits off the same 32 bytes that encryptCFB appended.
C4_CfbEnvelope ==
    EncryptedUnder(CFB) /\ Succeeded(last.res) =>
        LET p == last.input.data
            out == last.res.out
            salt == RandRead(32, last.rnd)
            iv == RandRead(16, last.rnd + 1)
        IN /\ saltlen = 32
           /\ Len(out) = 16 + Len(p) + saltlen
           /\ SubSeq(out, 1, 16) = iv
           /\ SubSeq(out, 17, 16 + Len(p))
                = CFBEncrypt(Pbkdf2(last.before.passphrase, salt), iv, p)
           /\ SubSeq(out, 16 + Len(p) + 1, Len(out)) = salt
           /\ SplitSalt(out) = salt

\* a CFB envelope of a non-empty plaintext
C4_Witness ==
    /\ EncryptedUnder(CFB)
    /\ Succeeded(last.res)
    /\ last.input.data # <<>>

BadHex(params) == ~HexDecode(params.CipherKey).ok \/ ~HexDecode(params.Nonce).ok

\* C6: in GCM mode Decrypt returns an error, never a plaintext, when no
\* parameters are stored or when the stored key or nonce is not valid hex;
\* RetrieveGCMDecryptionParameters returns an error when none are stored.
C6_GcmNeedsParams ==
    /\ (/\ last.op = "Decrypt"
        /\ last.before.protocol = GCM
        /\ (last.before.gcmDecryptParams.isNil \/ BadHex(last.before.gcmDecryptParams)))
            => ReturnedError(last.res)
    /\ last.op = "Retrieve" /\ last.before.gcmDecryptParams.isNil
            => ReturnedError(last.res)

\* Decrypt of a ciphertext on a GCM engine after WithGCM(nil)
C6_Witness ==
    /\ last.op = "Decrypt"
    /\ last.before.protocol = GCM
    /\ last.before.gcmDecryptParams.isNil
    /\ written[last.eng].by = "WithGCM"
    /\ ~last.input.isNil

\* the handler a call on an engine of protocol q may enter
Handler(op, q) ==
    CASE op = "Retrieve" -> "encryptCFB"
      [] op = "Encrypt" /\ q = GCM -> "encryptGCM"
      [] op = "Encrypt" /\ q = CFB -> "encryptCFB"
      [] op = "Encrypt" /\ q = RSA -> "encryptRSA"
      [] op = "Decrypt" /\ q = GCM -> "decryptGCM"
      [] op = "Decrypt" /\ q = CFB -> "decryptCFB"
      [] op = "Decrypt" /\ q = RSA -> "decryptRSA"
      [] OTHER -> "none"

\* C7: when Encrypt, Decrypt or RetrieveGCMDecryptionParameters returns an
\* error, the output is nil, no handler of another protocol was entered, and
\* the engine's protocol, passphrase and stored parameters are as before.
C7_ErrorsAreTerminal ==
    last.op \in {"Encrypt", "Decrypt", "Retrieve"} /\ last.res.err # "" =>
        /\ last.res.isNil /\ last.res.out = <<>>
        /\ \A i \in 1..Len(last.res.calls) :
                last.res.calls[i] = Handler(last.op, last.before.protocol)
        /\ Len(last.res.calls) <= 1
        /\ engines[last.eng] = last.before

\* a failed GCM Encrypt on an engine that holds parameters
C7_Witness ==
    /\ last.op = "Encrypt"
    /\ last.before.protocol = GCM
    /\ last.res.err # ""
    /\ ~last.before.gcmDecryptParams.isNil

\* C8: Encrypt, Decrypt and RetrieveGCMDecryptionParameters never change the
\* protocol or the passphrase; only WithGCM changes the protocol, it sets GCM
\* and installs the parameters it is given; Encrypt in CFB or RSA mode leaves
\* the stored parameters as they are.
C8_ProtocolImmutable ==
    [][\A id \in DOMAIN engines :
          /\ engines'[id].passphrase = engines[id].passphrase
          /\ engines'[id].protocol # engines[id].protocol
                => last'.op = "WithGCM" /\ last'.eng = id
          /\ last'.op = "WithGCM" /\ last'.eng = id
                => /\ engines'[id].protocol = GCM
                   /\ engines'[id].gcmDecryptParams = last'.params
          /\ last'.op = "Encrypt" /\ last'.eng = id /\ engines[id].protocol \in {CFB, RSA}
                => engines'[id].gcmDecryptParams = engines[id].gcmDecryptParams]_vars

\* WithGCM on an engine constructed for CFB
C8_Witness ==
    /\ last.op = "WithGCM"
    /\ last.before.protocol = CFB
    /\ engines[last.eng].protocol = GCM

\* the parameters of the key and nonce goroutine g's Encrypt generated
OwnParams(g) == GCMDecryptParams(HexEncode(local[g].cipherKey), HexEncode(local[g].nonce))

Alone(g) == \A h \in Goroutines \ {g} : local[h].eng # local[g].eng

\* C9: a call changes only the engine it is made on, and a goroutine that is
\* alone on its engine decrypts what it encrypted; two GCM Encrypt calls on
\* one engine can leave parameters that are not those of the ciphertext one
\* of the callers received (the witness).
C9_InstancesIndependent ==
    /\ [](\A g \in Goroutines :
            pc[g] = "checked" /\ Alone(g)
                => Succeeded(local[g].dec) /\ local[g].dec.out = local[g].input.data)
    /\ [][\A id \in Engines :
            engines'[id] # engines[id]
                => \E g \in Goroutines :
                      local[g].eng = id /\ pc[g] = "store" /\ pc'[g] = "done"]_vars

\* both goroutines encrypted under GCM on one engine and one of them cannot
\* decrypt its ciphertext: the stored parameters are the other's
C9_Witness ==
    \E g \in Goroutines :
        /\ \A h \in Goroutines : local[h].eng = local[g].eng /\ pc[h] \in {"done", "checked"}
        /\ engines[local[g].eng].protocol = GCM
        /\ pc[g] = "checked"
        /\ local[g].dec.err # ""
        /\ engines[local[g].eng].gcmDecryptParams # OwnParams(g)
        /\ \E h \in Goroutines \ {g} :
                engines[local[g].eng].gcmDecryptParams = OwnParams(h)

\* the latest successful GCM Encrypt on engine id, 0 if none
LatestIssued(id) ==
    IF \E i \in 1..Len(issued) : issued[i].eng = id
    THEN CHOOSE i \in 1..Len(issued) :
            issued[i].eng = id /\ \A j \in (i + 1)..Len(issued) : issued[j].eng # id
    ELSE 0

====
